---- MODULE Spec2Model ----
(***************************************************************************)
(* Model of the scan orchestrator and the rescan reconciliation of the     *)
(* WCAG checker: POST /api/scans with its background processScan task and  *)
(* handleRescanDiff (src/app/api/scans/route.ts), and POST                 *)
(* /api/projects/{id}/rescan (src/app/api/projects/[id]/rescan/route.ts).  *)
(* Every database operation and every analyser call is one atomic step;    *)
(* the code between two awaits runs inside the step that follows it.       *)
(***************************************************************************)
EXTENDS FiniteSets, Integers, Sequences, TLC

(***************************************************************************)
(* Bounds                                                                  *)
(***************************************************************************)
MaxScans == 2
MaxTasks == 2
MaxAttempts == 3

(***************************************************************************)
(* JavaScript / SQL values.  undefined (a property that is absent) and     *)
(* null (an SQL NULL, a cleared column) are distinct values.               *)
(***************************************************************************)
UNDEFINED == "undefined"
NULL == "null"
NullInt == 0 - 1
NoScanId == 0

\* a || b for string-like values: undefined, null and "" are falsy
OrElse(a, b) == IF a = UNDEFINED \/ a = NULL \/ a = "" THEN b ELSE a

(***************************************************************************)
(* Projects and Urls present in the store; request parameters.             *)
(***************************************************************************)
ProjectIds == {"p1", "p2"}
UnknownProject == "p9"
RequestProjectIds == ProjectIds \cup {UnknownProject, ""}
RequestUrls == {"u", "v", ""}

InitProjects ==
    [p \in ProjectIds |-> [id |-> p, name |-> "A", urls |-> IF p = "p1" THEN {"u"} ELSE {}]]

(***************************************************************************)
(* Findings an analyser can return (the normalised Result of the Analysis  *)
(* Adapter contract).                                                      *)
(***************************************************************************)
Finding(u, m, e, s, h, t, d) ==
    [url |-> u, message |-> m, element |-> e, severity |-> s,
     impact |-> IF h = UNDEFINED THEN UNDEFINED ELSE s, help |-> h, tags |-> t,
     elementPath |-> IF e = UNDEFINED THEN UNDEFINED ELSE "html > " \o e,
     details |-> d]

MissingAlt    == Finding("u", "m", "img", "critical", "old", <<"wcag2a", "wcag2aa">>, "{}")
MissingAltNew == Finding("u", "m", "img", "critical", "new", <<"wcag2a", "wcag2aa">>, "{}")
LowContrast   == Finding("u", "c", UNDEFINED, "moderate", UNDEFINED, <<>>, UNDEFINED)
PipeInMessage == Finding("u", "m|e", "", "minor", "h", <<"best-practice">>, "{}")
PipeInUrl     == Finding("u|m", "e", "", "minor", "h", <<"best-practice">>, "{}")

\* the result lists an analyser call can return: no finding; two findings, one
\* of them without its optional fields; findings of which two have the same
\* identity tuple and two others differ only in where the '|' stands
NoFindings == <<>>
FirstPage == <<MissingAlt, LowContrast>>
SecondPage == <<MissingAlt, MissingAltNew, PipeInMessage, PipeInUrl>>

AnalysisOutputs == {NoFindings, FirstPage, SecondPage}
\* the lists drawn where several scans and tasks run side by side
FewOutputs == {NoFindings, FirstPage}

FailureReasons == {"Error: timeout"}
DbError == "db error"

Severities == <<"critical", "serious", "moderate", "minor">>

CountSeverity(rs, s) == Cardinality({i \in 1..Len(rs) : rs[i].severity = s})

\* summary returned next to the results: counts by severity and the total
Summarize(rs) ==
    [critical |-> CountSeverity(rs, "critical"),
     serious  |-> CountSeverity(rs, "serious"),
     moderate |-> CountSeverity(rs, "moderate"),
     minor    |-> CountSeverity(rs, "minor"),
     total    |-> Len(rs)]

(***************************************************************************)
(* Persistence of a Result: the data mapping of result.createMany.         *)
(***************************************************************************)
\* a finding returned by an analyser carries the time it was detected
Stamp(f, t) ==
    [url |-> f.url, message |-> f.message, element |-> f.element,
     severity |-> f.severity, impact |-> f.impact, help |-> f.help,
     tags |-> f.tags, elementPath |-> f.elementPath, details |-> f.details,
     createdAt |-> t]

StampAll(fs, t) == [i \in 1..Len(fs) |-> Stamp(fs[i], t)]

\* an optional column that is given undefined is stored as NULL
Column(v) == IF v = UNDEFINED THEN NULL ELSE v

ResultRow(result, scanId, id, t) ==
    [id |-> id, scanId |-> scanId,
     url |-> result.url, message |-> result.message,
     element |-> Column(result.element), severity |-> result.severity,
     impact |-> Column(result.impact), help |-> Column(result.help),
     tags |-> result.tags, elementPath |-> Column(result.elementPath),
     details |-> OrElse(result.details, "{}"),
     createdAt |-> result.createdAt, updatedAt |-> t]

\* the first n positive integers outside used: ids are generated (cuid) and
\* never equal an id that is stored or that some task still refers to
RECURSIVE FreshIds(_, _, _)
FreshIds(used, n, from) ==
    IF n = 0 THEN <<>>
    ELSE IF from \in used THEN FreshIds(used, n, from + 1)
    ELSE <<from>> \o FreshIds(used, n - 1, from + 1)

\* rows inserted by createMany for the list rs, with the ids given
InsertedRows(rs, scanId, ids, t) ==
    {ResultRow(rs[i], scanId, ids[i], t) : i \in 1..Len(rs)}

\* mutation of ResultsOfScan: the rows of every Scan
ResultsOfAnyScan(table, scanId) == table

\* result.findMany({ where: { scanId } })
ResultsOfScan(table, scanId) == {r \in table : r.scanId = scanId}

(***************************************************************************)
(* handleRescanDiff: identity keys and the diff.                           *)
(***************************************************************************)
createKey(result) ==
    result.url \o "|" \o result.message \o "|" \o OrElse(result.element, "")
        \o "|" \o result.severity

KeysOfList(rs) == {createKey(rs[i]) : i \in 1..Len(rs)}
KeysOfRows(rows) == {createKey(r) : r \in rows}

\* new Map filled by forEach + set: the last Result of the list wins a key
LastIndexOf(rs, k) ==
    CHOOSE i \in 1..Len(rs) :
        /\ createKey(rs[i]) = k
        /\ \A j \in (i + 1)..Len(rs) : createKey(rs[j]) # k

newMapOf(newResults) ==
    [k \in KeysOfList(newResults) |-> newResults[LastIndexOf(newResults, k)]]

\* findMany has no orderBy, so which of several rows with one key is set
\* last into existingMap is not determined: every choice is possible
existingMapsOf(existingResults) ==
    {m \in [KeysOfRows(existingResults) -> existingResults] :
        \A k \in DOMAIN m : createKey(m[k]) = k}

RECURSIVE JsonArray(_)
JsonArray(t) ==
    IF t = <<>> THEN ""
    ELSE "\"" \o Head(t) \o "\"" \o (IF Len(t) > 1 THEN "," ELSE "") \o JsonArray(Tail(t))

\* JSON.stringify of the value of a field; undefined stringifies to undefined
JSONstringify(field, v) ==
    IF field = "tags" THEN "[" \o JsonArray(v) \o "]"
    ELSE IF v = UNDEFINED THEN UNDEFINED
    ELSE IF v = NULL THEN "null"
    ELSE IF field = "details" THEN v
    ELSE "\"" \o v \o "\""

fieldsToCheck == {"help", "impact", "tags", "elementPath", "details"}

ChangedFields(existingResult, newResult) ==
    {field \in fieldsToCheck :
        JSONstringify(field, existingResult[field]) # JSONstringify(field, newResult[field])}

\* the newMap entries in insertion order (first occurrence of each key)
RECURSIVE MapValuesFrom(_, _, _)
MapValuesFrom(rs, i, seen) ==
    IF i > Len(rs) THEN <<>>
    ELSE IF createKey(rs[i]) \in seen THEN MapValuesFrom(rs, i + 1, seen)
    ELSE <<newMapOf(rs)[createKey(rs[i])]>>
            \o MapValuesFrom(rs, i + 1, seen \cup {createKey(rs[i])})

toAddOf(existingMap, newResults) ==
    SelectSeq(MapValuesFrom(newResults, 1, {}),
              LAMBDA r : createKey(r) \notin DOMAIN existingMap)

toRemoveOf(existingMap, newMap) ==
    {existingMap[k].id : k \in (DOMAIN existingMap) \ (DOMAIN newMap)}

toUpdateOf(existingMap, newMap, t) ==
    {[id |-> existingMap[k].id,
      updates |-> [field \in ChangedFields(existingMap[k], newMap[k]) |-> newMap[k][field]],
      updatedAt |-> t] :
        k \in {kk \in (DOMAIN existingMap) \cap (DOMAIN newMap) :
                  ChangedFields(existingMap[kk], newMap[kk]) # {}}}

\* tx.result.update: a field given undefined is left alone
PatchRow(row, u) ==
    [field \in DOMAIN row |->
        IF field = "updatedAt" THEN u.updatedAt
        ELSE IF field \in DOMAIN u.updates /\ field = "tags" THEN u.updates[field]
        ELSE IF field \in DOMAIN u.updates /\ field # "tags" /\ u.updates[field] # UNDEFINED
             THEN u.updates[field]
        ELSE row[field]]

PatchFor(toUpdate, id) == CHOOSE u \in toUpdate : u.id = id

\* deleteMany, createMany and the updates of the transaction, all applied
ApplyDiff(table, scanId, toRemove, toAdd, toUpdate, ids, t) ==
    LET kept == {r \in table : r.id \notin toRemove}
        added == kept \cup InsertedRows(toAdd, scanId, ids, t)
    IN  {IF \E u \in toUpdate : u.id = r.id THEN PatchRow(r, PatchFor(toUpdate, r.id)) ELSE r :
            r \in added}

\* tx.result.update throws when its row is gone
UpdatesApplicable(table, toRemove, toUpdate) ==
    \A u \in toUpdate : \E r \in table : r.id = u.id /\ r.id \notin toRemove

\* mutation of TransactionResult: the operations run one by one without a
\* transaction, so a failure leaves the deletions and insertions in place
TransactionWithoutRollback(table, scanId, toRemove, toAdd, toUpdate, ids, t, ok) ==
    IF ok /\ UpdatesApplicable(table, toRemove, toUpdate)
    THEN ApplyDiff(table, scanId, toRemove, toAdd, toUpdate, ids, t)
    ELSE ApplyDiff(table, scanId, toRemove, toAdd, {}, ids, t)

\* prisma.$transaction: all operations commit, or the whole transaction rolls back
TransactionResult(table, scanId, toRemove, toAdd, toUpdate, ids, t, ok) ==
    IF ok /\ UpdatesApplicable(table, toRemove, toUpdate)
    THEN ApplyDiff(table, scanId, toRemove, toAdd, toUpdate, ids, t)
    ELSE table

(***************************************************************************)
(* State                                                                   *)
(***************************************************************************)
VARIABLES
    projects,      \* Project table: id -> [id, urls]
    scans,         \* Scan table: the sequence of Scan rows, a Scan's id is its index
    results,       \* Result table: a set of Result rows
    tasks,         \* the processScan invocations dispatched so far
    timers,        \* setTimeout callbacks of the rescan endpoint not yet run
    now,           \* the clock read by new Date(); it advances with every scan attempt started
    response       \* the last HTTP response sent

vars == <<projects, scans, results, tasks, timers, now, response>>

ScanIds == DOMAIN scans
TaskIds == DOMAIN tasks

\* what the model keeps of a response: the endpoint, the status code and, for the
\* rescan endpoint, the project of the request
Response(endpoint, status, project) ==
    [endpoint |-> endpoint, status |-> status, project |-> project]

\* prisma.scan.create: columns not given take their default or NULL
ScanRow(id, projectId, url, status, startedAt, t) ==
    [id |-> id, projectId |-> projectId, url |-> url, status |-> status,
     startedAt |-> startedAt, completedAt |-> NullInt, error |-> NULL,
     totalIssues |-> NullInt, criticalIssues |-> NullInt, seriousIssues |-> NullInt,
     moderateIssues |-> NullInt, minorIssues |-> NullInt, analysisMethod |-> NULL,
     createdAt |-> t]

\* mutation of ResetScan: the update leaves error and the counters as they are
ResetScanKeepingSummary(scan, url, t) ==
    [scan EXCEPT !.status = "in_progress", !.url = url, !.startedAt = t,
                 !.completedAt = NullInt, !.analysisMethod = NULL]

\* data of the scan.update of a rescan request
ResetScan(scan, url, t) ==
    [scan EXCEPT !.status = "in_progress", !.url = url, !.startedAt = t,
                 !.completedAt = NullInt, !.error = NULL,
                 !.totalIssues = NullInt, !.criticalIssues = NullInt,
                 !.seriousIssues = NullInt, !.moderateIssues = NullInt,
                 !.minorIssues = NullInt, !.analysisMethod = NULL]

\* data of the final scan.update of a successful processScan
CompleteScan(scan, summary, analysisMethod, t) ==
    [scan EXCEPT !.status = "completed", !.completedAt = t,
                 !.totalIssues = summary.total, !.criticalIssues = summary.critical,
                 !.seriousIssues = summary.serious, !.moderateIssues = summary.moderate,
                 !.minorIssues = summary.minor, !.analysisMethod = analysisMethod]

\* data of the scan.update in the catch blocks
FailScan(scan, message, t) ==
    [scan EXCEPT !.status = "failed", !.completedAt = t, !.error = message]

\* a processScan invocation at its first await
NewTask(scanId, url, isRescan) ==
    [scanId |-> scanId, url |-> url, isRescan |-> isRescan, pc |-> "simple",
     calls |-> <<>>, reasons |-> <<>>, analysisMethod |-> "unknown",
     results |-> <<>>, summary |-> Summarize(<<>>),
     toAdd |-> <<>>, toRemove |-> {}, toUpdate |-> {}, error |-> NULL]

ReservedTasks == Len(tasks) + Len(timers)
ActiveTasks == {t \in TaskIds : tasks[t].pc # "done"}
ReservedScans == Len(scans) + Cardinality({i \in DOMAIN timers : timers[i].scanId = NoScanId})

Init ==
    /\ projects = InitProjects
    /\ scans = <<>>
    /\ results = {}
    /\ tasks = <<>>
    /\ timers = <<>>
    /\ now = 1
    /\ response = Response("none", 0, "")

(***************************************************************************)
(* POST /api/scans                                                         *)
(***************************************************************************)
\* the handler; the caller says what becomes of the timers
PostScansHandler(projectId, url, scanId) ==
    IF projectId = "" \/ url = ""
    THEN /\ response' = Response("POST /scans", 400, "")
         /\ UNCHANGED <<projects, scans, results, tasks, now>>
    ELSE \E ok \in BOOLEAN :
        IF scanId # NoScanId
        THEN IF ok /\ scanId \in ScanIds
             THEN /\ scans' = [scans EXCEPT ![scanId] = ResetScan(@, url, now)]
                  /\ tasks' = Append(tasks, NewTask(scanId, url, TRUE))
                  /\ now' = now + 1
                  /\ response' = Response("POST /scans", 200, "")
                  /\ UNCHANGED <<projects, results>>
             ELSE /\ response' = Response("POST /scans", 500, "")
                  /\ UNCHANGED <<projects, scans, results, tasks, now>>
        ELSE IF ok /\ projectId \in DOMAIN projects
             THEN /\ scans' = Append(scans, ScanRow(Len(scans) + 1, projectId, url,
                                                    "in_progress", now, now))
                  /\ tasks' = Append(tasks, NewTask(Len(scans) + 1, url, FALSE))
                  /\ now' = now + 1
                  /\ response' = Response("POST /scans", 200, "")
                  /\ UNCHANGED <<projects, results>>
             ELSE /\ response' = Response("POST /scans", 500, "")
                  /\ UNCHANGED <<projects, scans, results, tasks, now>>

\* a request sent by a client
PostScans ==
    \E projectId \in RequestProjectIds, url \in RequestUrls, scanId \in 0..(Len(scans) + 1) :
        /\ ReservedTasks < MaxTasks
        /\ scanId = NoScanId => ReservedScans < MaxScans /\ url # "v"
        /\ PostScansHandler(projectId, url, scanId)
        /\ UNCHANGED timers

(***************************************************************************)
(* POST /api/projects/{id}/rescan                                          *)
(***************************************************************************)
\* mutation of pendingScans: only in_progress Scans count
pendingScansInProgressOnly(projectId) ==
    {id \in ScanIds : /\ scans[id].projectId = projectId
                      /\ scans[id].status = "in_progress"}

\* the Scans of the project that block a rescan
pendingScans(projectId) ==
    {id \in ScanIds : /\ scans[id].projectId = projectId
                      /\ scans[id].status \in {"pending", "in_progress"}}

\* project.scans is ordered by createdAt desc, find takes the first match
existingScan(projectId, url) ==
    LET matches == {id \in ScanIds : scans[id].projectId = projectId /\ scans[id].url = url}
    IN  IF matches = {} THEN NoScanId
        ELSE CHOOSE id \in matches : \A other \in matches : other <= id

RECURSIVE SetToSeq(_)
SetToSeq(S) ==
    IF S = {} THEN <<>>
    ELSE LET x == CHOOSE y \in S : TRUE IN <<x>> \o SetToSeq(S \ {x})

Rescan ==
    \E projectId \in RequestProjectIds \ {""}, found \in BOOLEAN :
        \* project.findUnique may throw
        IF ~found
        THEN /\ response' = Response("POST /rescan", 500, "")
             /\ UNCHANGED <<projects, scans, results, tasks, timers, now>>
        ELSE IF projectId \notin DOMAIN projects
        THEN /\ response' = Response("POST /rescan", 404, projectId)
             /\ UNCHANGED <<projects, scans, results, tasks, timers, now>>
        ELSE IF projects[projectId].urls = {}
        THEN /\ response' = Response("POST /rescan", 400, projectId)
             /\ UNCHANGED <<projects, scans, results, tasks, timers, now>>
        ELSE IF pendingScans(projectId) # {}
        THEN /\ response' = Response("POST /rescan", 409, projectId)
             /\ UNCHANGED <<projects, scans, results, tasks, timers, now>>
        ELSE LET urls == projects[projectId].urls
                 missing == {u \in urls : existingScan(projectId, u) = NoScanId}
             IN  /\ ReservedTasks + Cardinality(urls) <= MaxTasks
                 /\ ReservedScans + 2 * Cardinality(missing) <= MaxScans
                 \* scan.create may throw for some of the Urls that have no Scan
                 /\ \E failing \in SUBSET missing :
                      LET created == SetToSeq(missing \ failing)
                          newId(u) == CHOOSE i \in 1..Len(created) : created[i] = u
                          scheduled == SetToSeq(urls \ failing)
                      IN  /\ scans' = scans \o
                                [i \in 1..Len(created) |->
                                    ScanRow(Len(scans) + i, projectId, created[i],
                                            "pending", NullInt, now)]
                          /\ timers' = timers \o
                                [i \in 1..Len(scheduled) |->
                                    [projectId |-> projectId, url |-> scheduled[i],
                                     scanId |-> existingScan(projectId, scheduled[i])]]
                          /\ response' = Response("POST /rescan",
                                                  IF failing = {} THEN 200 ELSE 500, projectId)
                 /\ UNCHANGED <<projects, results, tasks, now>>

\* the setTimeout callback: fetch POST /api/scans, with scanId only for a rescan
TimerFire ==
    \E i \in DOMAIN timers :
        /\ timers' = [j \in 1..(Len(timers) - 1) |-> IF j < i THEN timers[j] ELSE timers[j + 1]]
        /\ PostScansHandler(timers[i].projectId, timers[i].url, timers[i].scanId)

(***************************************************************************)
(* processScan: the background task of one scan attempt                    *)
(***************************************************************************)
SetTask(t, task) == tasks' = [tasks EXCEPT ![t] = task]

\* a processScan invocation that has returned or thrown; its locals are gone
Finished == [NewTask(NoScanId, "", FALSE) EXCEPT !.pc = "done"]

\* ids stored in the Result table or held by a task in toRemove / toUpdate
UsedIds ==
    {r.id : r \in results}
        \cup UNION {tasks[t].toRemove : t \in TaskIds}
        \cup UNION {{u.id : u \in tasks[t].toUpdate} : t \in TaskIds}

\* the strategy tried at a position of the nested try blocks
StrategyAt(pc) ==
    CASE pc = "simple" -> "simple"
      [] pc = "playwright" -> "playwright"
      [] pc = "html" -> "html-validator"

\* mutation of FallbackOf: the catch block of the simple checker goes straight
\* to the HTML validator
FallbackSkippingPlaywright(pc) ==
    CASE pc = "simple" -> "html"
      [] pc = "playwright" -> "html"
      [] pc = "html" -> "catch"

\* where the catch block of a strategy continues
FallbackOf(pc) ==
    CASE pc = "simple" -> "playwright"
      [] pc = "playwright" -> "html"
      [] pc = "html" -> "catch"

\* mutation of AllFailedMessage: the reason of the playwright checker is left out
AllFailedMessageWithoutPlaywright(reasons) ==
    "All analysis methods failed: Simple: " \o reasons[1] \o ", HTML: " \o reasons[3]

\* message of the Error thrown when the HTML validator has failed too
AllFailedMessage(reasons) ==
    "All analysis methods failed: Simple: " \o reasons[1] \o ", Playwright: " \o reasons[2]
        \o ", HTML: " \o reasons[3]

\* the first database operation after a successful analysis
AfterAnalysis(isRescan, newResults) ==
    IF isRescan THEN "findMany"
    ELSE IF Len(newResults) > 0 THEN "createMany" ELSE "complete"

Analyze(t, pc, outputs) ==
    /\ tasks[t].pc = pc
    /\ \/ \E out \in outputs :
            SetTask(t, [tasks[t] EXCEPT
                !.calls = Append(@, StrategyAt(pc)),
                !.results = StampAll(out, now),
                !.summary = Summarize(out),
                !.analysisMethod = StrategyAt(pc),
                !.pc = AfterAnalysis(tasks[t].isRescan, out)])
       \/ \E reason \in FailureReasons :
            LET reasons == Append(tasks[t].reasons, reason)
            IN  SetTask(t, [tasks[t] EXCEPT
                    !.calls = Append(@, StrategyAt(pc)),
                    !.reasons = reasons,
                    !.error = IF FallbackOf(pc) = "catch" THEN AllFailedMessage(reasons) ELSE @,
                    !.pc = FallbackOf(pc)])
    /\ UNCHANGED <<projects, scans, results, timers, now, response>>

SimpleAnalyze == \E t \in TaskIds : Analyze(t, "simple", FewOutputs)
PlaywrightAnalyze == \E t \in TaskIds : Analyze(t, "playwright", FewOutputs)
HtmlAnalyze == \E t \in TaskIds : Analyze(t, "html", FewOutputs)

\* fresh scan: prisma.result.createMany of all returned results
CreateMany ==
    \E t \in TaskIds, ok \in BOOLEAN :
        /\ tasks[t].pc = "createMany"
        /\ IF ok
           THEN /\ results' = results \cup
                        InsertedRows(tasks[t].results, tasks[t].scanId,
                                     FreshIds(UsedIds, Len(tasks[t].results), 1), now)
                /\ SetTask(t, [tasks[t] EXCEPT !.pc = "complete"])
           ELSE /\ SetTask(t, [tasks[t] EXCEPT !.pc = "catch", !.error = DbError])
                /\ UNCHANGED results
        /\ UNCHANGED <<projects, scans, timers, now, response>>

\* rescan: result.findMany and the computation of toAdd, toRemove, toUpdate
FindMany ==
    \E t \in TaskIds, ok \in BOOLEAN :
        /\ tasks[t].pc = "findMany"
        /\ IF ok
           THEN \E existingMap \in existingMapsOf(ResultsOfScan(results, tasks[t].scanId)) :
                    LET newMap == newMapOf(tasks[t].results)
                    IN  SetTask(t, [tasks[t] EXCEPT
                            !.toAdd = toAddOf(existingMap, tasks[t].results),
                            !.toRemove = toRemoveOf(existingMap, newMap),
                            !.toUpdate = toUpdateOf(existingMap, newMap, now),
                            !.pc = "transaction"])
           ELSE SetTask(t, [tasks[t] EXCEPT !.pc = "catch", !.error = DbError])
        /\ UNCHANGED <<projects, scans, results, timers, now, response>>

\* rescan: prisma.$transaction of the deletions, insertions and updates
Transaction ==
    \E t \in TaskIds, ok \in BOOLEAN :
        /\ tasks[t].pc = "transaction"
        /\ results' = TransactionResult(results, tasks[t].scanId, tasks[t].toRemove,
                                        tasks[t].toAdd, tasks[t].toUpdate,
                                        FreshIds(UsedIds, Len(tasks[t].toAdd), 1), now, ok)
        /\ IF ok /\ UpdatesApplicable(results, tasks[t].toRemove, tasks[t].toUpdate)
           THEN SetTask(t, [tasks[t] EXCEPT !.pc = "complete",
                                            !.toAdd = <<>>, !.toRemove = {}, !.toUpdate = {}])
           ELSE SetTask(t, [tasks[t] EXCEPT !.pc = "catch", !.error = DbError])
        /\ UNCHANGED <<projects, scans, timers, now, response>>

\* scan.update to completed with the summary
UpdateCompleted ==
    \E t \in TaskIds, ok \in BOOLEAN :
        /\ tasks[t].pc = "complete"
        /\ IF ok
           THEN /\ scans' = [scans EXCEPT ![tasks[t].scanId] =
                                CompleteScan(@, tasks[t].summary, tasks[t].analysisMethod, now)]
                /\ SetTask(t, Finished)
           ELSE /\ SetTask(t, [tasks[t] EXCEPT !.pc = "catch", !.error = DbError])
                /\ UNCHANGED scans
        /\ UNCHANGED <<projects, results, timers, now, response>>

\* catch block of processScan: scan.update to failed, then rethrow; when the
\* update itself throws, its error is the one that leaves processScan
UpdateFailed ==
    \E t \in TaskIds, ok \in BOOLEAN :
        /\ tasks[t].pc = "catch"
        /\ IF ok
           THEN /\ scans' = [scans EXCEPT ![tasks[t].scanId] = FailScan(@, tasks[t].error, now)]
                /\ SetTask(t, [tasks[t] EXCEPT !.pc = "rethrown"])
           ELSE /\ SetTask(t, [tasks[t] EXCEPT !.pc = "rethrown", !.error = DbError])
                /\ UNCHANGED scans
        /\ UNCHANGED <<projects, results, timers, now, response>>

\* .catch of the dispatch in POST: scan.update to failed, errors only logged
CatchUpdateFailed ==
    \E t \in TaskIds, ok \in BOOLEAN :
        /\ tasks[t].pc = "rethrown"
        /\ IF ok
           THEN scans' = [scans EXCEPT ![tasks[t].scanId] = FailScan(@, tasks[t].error, now)]
           ELSE UNCHANGED scans
        /\ SetTask(t, Finished)
        /\ UNCHANGED <<projects, results, timers, now, response>>

Next ==
    \/ PostScans
    \/ Rescan
    \/ TimerFire
    \/ SimpleAnalyze
    \/ PlaywrightAnalyze
    \/ HtmlAnalyze
    \/ CreateMany
    \/ FindMany
    \/ Transaction
    \/ UpdateCompleted
    \/ UpdateFailed
    \/ CatchUpdateFailed

Spec == Init /\ [][Next]_vars

(***************************************************************************)
(* One Scan of project p1 attempted again and again, one attempt at a      *)
(* time: a fresh scan followed by rescans of the Scan it created, with     *)
(* every result list an analyser can return.                               *)
(***************************************************************************)
PostScansSeq ==
    \E scanId \in {IF scans = <<>> THEN NoScanId ELSE 1} :
        /\ ActiveTasks = {}
        /\ Len(tasks) < MaxAttempts
        /\ PostScansHandler("p1", "u", scanId)
        /\ UNCHANGED timers

SimpleAnalyzeSeq == \E t \in TaskIds : Analyze(t, "simple", AnalysisOutputs)
PlaywrightAnalyzeSeq == \E t \in TaskIds : Analyze(t, "playwright", AnalysisOutputs)
HtmlAnalyzeSeq == \E t \in TaskIds : Analyze(t, "html", AnalysisOutputs)

NextSeq ==
    \/ PostScansSeq
    \/ SimpleAnalyzeSeq
    \/ PlaywrightAnalyzeSeq
    \/ HtmlAnalyzeSeq
    \/ CreateMany
    \/ FindMany
    \/ Transaction
    \/ UpdateCompleted
    \/ UpdateFailed
    \/ CatchUpdateFailed

SpecSeq == Init /\ [][NextSeq]_vars

(***************************************************************************)
(* The Scans of several projects attempted one attempt at a time: fresh    *)
(* scans and rescans of any Scan, with every result list.                  *)
(***************************************************************************)
PostScansPair ==
    \E projectId \in ProjectIds, scanId \in 0..Len(scans) :
        /\ ActiveTasks = {}
        /\ Len(tasks) < MaxAttempts
        /\ scanId = NoScanId => Len(scans) < MaxScans
        /\ PostScansHandler(projectId, "u", scanId)
        /\ UNCHANGED timers

NextPair ==
    \/ PostScansPair
    \/ SimpleAnalyzeSeq
    \/ PlaywrightAnalyzeSeq
    \/ HtmlAnalyzeSeq
    \/ CreateMany
    \/ FindMany
    \/ Transaction
    \/ UpdateCompleted
    \/ UpdateFailed
    \/ CatchUpdateFailed

SpecPair == Init /\ [][NextPair]_vars

(***************************************************************************)
(* Rescans of a Scan whose fresh scan has completed with the two findings  *)
(* of FirstPage: the state SpecSeq is in after that scan.                  *)
(***************************************************************************)
\* the rows stored by the createMany of the fresh scan
FirstScanRows == InsertedRows(StampAll(FirstPage, 2), 1, <<1, 2>>, 2)

InitScanned ==
    /\ projects = InitProjects
    /\ scans = <<CompleteScan(ScanRow(1, "p1", "u", "in_progress", 1, 1),
                              Summarize(StampAll(FirstPage, 2)), "simple", 2)>>
    /\ results = FirstScanRows
    /\ tasks = <<Finished>>
    /\ timers = <<>>
    /\ now = 2
    /\ response = Response("POST /scans", 200, "")

NextRescans ==
    \/ PostScansSeq
    \/ SimpleAnalyzeSeq
    \/ PlaywrightAnalyzeSeq
    \/ HtmlAnalyzeSeq
    \/ FindMany
    \/ Transaction
    \/ UpdateCompleted
    \/ UpdateFailed
    \/ CatchUpdateFailed

SpecRescans == InitScanned /\ [][NextRescans]_vars

(***************************************************************************)
(* PATCH /api/projects/{id}                                                *)
(***************************************************************************)
MaxUrlsPerProject == 10

RequestNames == {"", "A", "B"}
PatchUrls == {"u", "v", "w"}
\* the urls of a request body: short lists, duplicates included, and a list
\* longer than the limit
TooManyUrls == [i \in 1..(MaxUrlsPerProject + 1) |-> "w"]
RequestUrlLists ==
    {<<>>} \cup {<<a>> : a \in PatchUrls} \cup {<<a, b>> : a, b \in PatchUrls}
        \cup {TooManyUrls}

Range(list) == {list[i] : i \in 1..Len(list)}

\* prisma.project.update({ where: { id }, data: { name } })
Renamed(table, id, name) == [table EXCEPT ![id].name = name]

\* prisma.url.deleteMany({ where: { projectId: id } })
UrlsDeleted(table, id) == [table EXCEPT ![id].urls = {}]

\* the url column of the Url table, on which the unique index stands
UrlsOfAllProjects(table) == UNION {table[p].urls : p \in DOMAIN table}

\* prisma.url.createMany: one statement, rejected as a whole when a url of the
\* list is already stored or stands twice in the list
CreateManyAccepted(table, id, urls) ==
    /\ Range(urls) \cap UrlsOfAllProjects(table) = {}
    /\ \A i, j \in 1..Len(urls) : urls[i] = urls[j] => i = j

UrlsCreated(table, id, urls) == [table EXCEPT ![id].urls = @ \cup Range(urls)]

\* the handler; hasUrls says whether the body carries an array urls, and
\* failAt is the database call that throws for a reason of its own, if any
PatchHandler(id, name, hasUrls, urls) ==
    IF name = "" \/ (hasUrls /\ Len(urls) > MaxUrlsPerProject)
    THEN /\ response' = Response("PATCH /projects", 400, id)
         /\ UNCHANGED projects
    ELSE \E failAt \in {"none", "update", "deleteMany", "createMany"} :
        IF id \notin DOMAIN projects \/ failAt = "update"
        THEN /\ response' = Response("PATCH /projects", 500, id)
             /\ UNCHANGED projects
        ELSE IF ~hasUrls
        THEN /\ projects' = Renamed(projects, id, name)
             /\ response' = Response("PATCH /projects", 200, id)
        ELSE IF failAt = "deleteMany"
        THEN /\ projects' = Renamed(projects, id, name)
             /\ response' = Response("PATCH /projects", 500, id)
        ELSE IF \/ failAt = "createMany"
                \/ ~CreateManyAccepted(UrlsDeleted(Renamed(projects, id, name), id), id, urls)
        THEN /\ projects' = UrlsDeleted(Renamed(projects, id, name), id)
             /\ response' = Response("PATCH /projects", 500, id)
        ELSE /\ projects' = UrlsCreated(UrlsDeleted(Renamed(projects, id, name), id), id, urls)
             /\ response' = Response("PATCH /projects", 200, id)

\* a request sent by a client
Patch ==
    \E id \in ProjectIds \cup {UnknownProject}, name \in RequestNames,
       hasUrls \in BOOLEAN, urls \in RequestUrlLists :
        /\ PatchHandler(id, name, hasUrls, urls)
        /\ UNCHANGED <<scans, results, tasks, timers, now>>

NextPatch == Patch

SpecPatch == Init /\ [][NextPatch]_vars

TypeOK ==
    /\ \A id \in ScanIds : scans[id].status \in {"pending", "in_progress", "completed", "failed"}
    /\ \A r \in results : r.scanId \in ScanIds

(***************************************************************************)
(* GET /api/projects/{id}/results: the deduplicated findings of a project  *)
(* (no search, no filters, all pages).  The request changes nothing.       *)
(***************************************************************************)
completedScans(projectId) ==
    {id \in ScanIds : scans[id].projectId = projectId /\ scans[id].status = "completed"}

\* scans.flatMap(scan => scan.results)
allResults(projectId) == {r \in results : r.scanId \in completedScans(projectId)}

\* key of the deduplication map
deduplicationKey(result) ==
    result.url \o "|" \o result.message \o "|" \o OrElse(result.element, "")
        \o "|" \o result.severity

\* the deduplication map after the forEach: a key keeps the first Result met
\* among those with the greatest createdAt; Scans come in the order createdAt
\* desc, the Results of a Scan in no particular order
deduplicationMapsOf(rows) ==
    {m \in [{deduplicationKey(r) : r \in rows} -> rows] :
        \A k \in DOMAIN m :
            /\ deduplicationKey(m[k]) = k
            /\ \A r \in rows :
                  deduplicationKey(r) = k =>
                      \/ r.createdAt < m[k].createdAt
                      \/ /\ r.createdAt = m[k].createdAt
                         /\ scans[r.scanId].createdAt <= scans[m[k].scanId].createdAt}

\* the sets of Results the endpoint can return for the project
uniqueResultsOf(projectId) ==
    {{m[k] : k \in DOMAIN m} : m \in deduplicationMapsOf(allResults(projectId))}

(***************************************************************************)
(* Properties                                                              *)
(***************************************************************************)
Terminal == {"completed", "failed"}

\* C1: when the background task of a scan finishes (returns, or its rejection
\* has been handled by the .catch of the dispatch), the status of its Scan is
\* completed or failed, on every path, persistence exceptions included.
C1_TerminalWhenTaskFinishes ==
    [][\A t \in TaskIds :
          (tasks[t].pc # "done" /\ tasks'[t].pc = "done")
              => scans'[tasks[t].scanId].status \in Terminal]_vars

\* C7: for every Scan at most one processScan task is active at any time.
C7_AtMostOneActiveAnalysis ==
    \A id \in ScanIds : Cardinality({t \in ActiveTasks : tasks[t].scanId = id}) <= 1


\* (url, message, element-or-empty, severity) of a Result row or a new Result
IdentityTuple(r) == <<r.url, r.message, OrElse(r.element, ""), r.severity>>

RowIds(rows) == {r.id : r \in rows}

\* the value a field of a new Result is persisted with
PersistedValue(field, v) ==
    IF field = "tags" THEN v
    ELSE IF field = "details" THEN OrElse(v, "{}")
    ELSE Column(v)

\* the deletions, the insertions and the patches of task's diff are all
\* visible in the table after, and no other row of before has changed
AllApplied(before, after, task) ==
    LET patched == {u.id : u \in task.toUpdate}
        inserted == {r \in after : r.id \notin RowIds(before)}
    IN  /\ RowIds(after) \cap task.toRemove = {}
        /\ Cardinality(inserted) = Len(task.toAdd)
        /\ \A i \in 1..Len(task.toAdd) :
              \E r \in inserted : /\ r.scanId = task.scanId
                                  /\ IdentityTuple(r) = IdentityTuple(task.toAdd[i])
                                  /\ r.createdAt = task.toAdd[i].createdAt
        /\ \A u \in task.toUpdate :
              \E r \in after :
                  /\ r.id = u.id
                  /\ r.updatedAt = u.updatedAt
                  /\ \A field \in DOMAIN u.updates :
                        r[field] = PersistedValue(field, u.updates[field])
                            \/ (field # "tags" /\ u.updates[field] = UNDEFINED)
        /\ \A r \in before : r.id \notin task.toRemove \cup patched => r \in after

\* C2: the apply step of a rescan is one atomic transaction: the step that
\* leaves the transaction either changes no Result row at all (and the task goes
\* to its catch block) or shows all deletions, insertions and patches at once.
C2_TransactionAllOrNothing ==
    [][\A t \in TaskIds :
          (tasks[t].pc = "transaction" /\ tasks'[t].pc # "transaction")
              => \/ results' = results /\ tasks'[t].pc = "catch"
                 \/ AllApplied(results, results', tasks[t]) /\ tasks'[t].pc = "complete"]_vars

\* a transaction with deletions, insertions and patches has failed and the rows
\* it was to delete are still stored
C2_Witness ==
    \E t \in TaskIds :
        /\ tasks[t].pc = "catch"
        /\ tasks[t].toRemove # {} /\ tasks[t].toAdd # <<>> /\ tasks[t].toUpdate # {}
        /\ tasks[t].toRemove \subseteq RowIds(results)

\* C3: reconciliation is idempotent: once the diff a rescan computed for the
\* new list R2 is applied, the diff of the same R2 against the rows then stored
\* has nothing to add, nothing to remove and nothing to update.
C3_ReconciliationIdempotent ==
    \A t \in TaskIds :
        (tasks[t].pc = "transaction"
            /\ UpdatesApplicable(results, tasks[t].toRemove, tasks[t].toUpdate))
        => LET after == ApplyDiff(results, tasks[t].scanId, tasks[t].toRemove, tasks[t].toAdd,
                                  tasks[t].toUpdate,
                                  FreshIds(UsedIds, Len(tasks[t].toAdd), 1), now)
               newMap == newMapOf(tasks[t].results)
           IN  \A existingMap \in existingMapsOf(ResultsOfScan(after, tasks[t].scanId)) :
                   /\ toAddOf(existingMap, tasks[t].results) = <<>>
                   /\ toRemoveOf(existingMap, newMap) = {}
                   /\ toUpdateOf(existingMap, newMap, now) = {}

\* C4: when the stored rows and the new list have the same identity tuples,
\* the diff adds nothing, removes nothing, and patches a row only if one of
\* help, impact, tags, elementPath, details of a new Result with that tuple
\* has another value than the row.
C4_SameTuplesOnlyRealUpdates ==
    \A t \in TaskIds :
        LET rows == ResultsOfScan(results, tasks[t].scanId)
            R2 == tasks[t].results
        IN  (tasks[t].pc = "transaction"
                /\ {IdentityTuple(r) : r \in rows} = {IdentityTuple(R2[i]) : i \in 1..Len(R2)})
            => /\ tasks[t].toAdd = <<>>
               /\ tasks[t].toRemove = {}
               /\ \A u \in tasks[t].toUpdate :
                     \E r \in rows, i \in 1..Len(R2) :
                         /\ r.id = u.id
                         /\ IdentityTuple(R2[i]) = IdentityTuple(r)
                         /\ \E field \in fieldsToCheck :
                               r[field] # PersistedValue(field, R2[i][field])

\* C5: a rescan whose new list is empty leaves the Scan without any Result
\* and adds none.
C5_EmptyListRemovesAll ==
    [][\A t \in TaskIds :
          (tasks[t].pc = "transaction" /\ tasks'[t].pc = "complete" /\ tasks[t].results = <<>>)
              => /\ ResultsOfScan(results', tasks[t].scanId) = {}
                 /\ tasks[t].toAdd = <<>>]_vars

\* C6: a rescan of a Scan without Results stores every Result of the new
\* list (as many rows as the list is long) and removes none.
C6_EmptyScanAddsAll ==
    [][\A t \in TaskIds :
          (tasks[t].pc = "transaction" /\ tasks'[t].pc = "complete"
              /\ ResultsOfScan(results, tasks[t].scanId) = {})
              => /\ Cardinality(ResultsOfScan(results', tasks[t].scanId)) = Len(tasks[t].results)
                 /\ tasks[t].toRemove = {}]_vars


\* the step is the handling of a POST /projects/{id}/rescan request
RescanStep ==
    /\ response'.endpoint = "POST /rescan"
    /\ response' # response \/ timers' # timers

NothingStarted ==
    /\ scans' = scans
    /\ results' = results
    /\ tasks' = tasks
    /\ timers' = timers

HasUnfinishedScan(projectId) ==
    \E id \in ScanIds : /\ scans[id].projectId = projectId
                        /\ scans[id].status \in {"pending", "in_progress"}

\* C8 as stated: a rescan request on a Project that has a pending or
\* in_progress Scan is answered with 409 and creates no Scan, changes no Scan
\* and triggers no analysis.
C8_ConflictWheneverScanUnfinished ==
    [][(RescanStep /\ HasUnfinishedScan(response'.project))
          => (response'.status = 409 /\ NothingStarted)]_vars

\* C8 amended: a rescan request that has read a Project with a pending or
\* in_progress Scan is rejected and starts nothing; the status is 409 when the
\* Project has a Url and 400 when it has none.
C8_RejectedWhenScanUnfinished ==
    [][(RescanStep /\ HasUnfinishedScan(response'.project))
          => /\ NothingStarted
             /\ response'.status =
                   (IF projects[response'.project].urls = {} THEN 400 ELSE 409)]_vars

\* a rescan request on a Project with a Url and a pending Scan got 409
C8_Witness ==
    /\ response.endpoint = "POST /rescan"
    /\ response.status = 409
    /\ projects[response.project].urls # {}
    /\ \E id \in ScanIds : scans[id].projectId = response.project /\ scans[id].status = "pending"

\* the step is a POST /scans request with a scanId that dispatched its task
RescanDispatched ==
    /\ Len(tasks') = Len(tasks) + 1
    /\ tasks'[Len(tasks')].isRescan

\* C9: POST /scans with a scanId resets the Scan in place: status in_progress,
\* the url of the request, startedAt the time of the request, completedAt,
\* error, the five counters and analysisMethod cleared; the id, the project
\* and the Results of the Scan and all other Scans are as before, and no Scan
\* is created.
C9_RescanResetsInPlace ==
    [][RescanDispatched =>
          LET id == tasks'[Len(tasks')].scanId
          IN  /\ id \in ScanIds
              /\ Len(scans') = Len(scans)
              /\ scans'[id].status = "in_progress"
              /\ scans'[id].url = tasks'[Len(tasks')].url
              /\ scans'[id].startedAt = now
              /\ scans'[id].startedAt # scans[id].startedAt
              /\ scans'[id].completedAt = NullInt
              /\ scans'[id].error = NULL
              /\ scans'[id].totalIssues = NullInt
              /\ scans'[id].criticalIssues = NullInt
              /\ scans'[id].seriousIssues = NullInt
              /\ scans'[id].moderateIssues = NullInt
              /\ scans'[id].minorIssues = NullInt
              /\ scans'[id].analysisMethod = NULL
              /\ scans'[id].id = scans[id].id
              /\ scans'[id].projectId = scans[id].projectId
              /\ scans'[id].createdAt = scans[id].createdAt
              /\ \A other \in ScanIds \ {id} : scans'[other] = scans[other]
              /\ results' = results]_vars

\* a completed Scan with Results and counters has been reset by a rescan
\* request with another url
C9_Witness ==
    \E t \in TaskIds :
        /\ tasks[t].isRescan /\ tasks[t].pc = "simple"
        /\ scans[tasks[t].scanId].status = "in_progress"
        /\ scans[tasks[t].scanId].url = "v"
        /\ scans[tasks[t].scanId].createdAt < scans[tasks[t].scanId].startedAt
        /\ ResultsOfScan(results, tasks[t].scanId) # {}
        /\ response = Response("POST /scans", 200, "")

IsPrefix(s, t) == Len(s) <= Len(t) /\ \A i \in 1..Len(s) : s[i] = t[i]

AfterSuccess == {"createMany", "findMany", "transaction", "complete"}

\* C10: the strategies are called in the order simple, playwright,
\* html-validator, each only after all earlier ones failed; after the first
\* success no strategy is called any more, and the analysisMethod written with
\* status completed is the strategy that succeeded.
C10_FixedOrderFirstSuccessWins ==
    /\ [](\A t \in TaskIds :
            tasks[t].pc # "done" =>
                /\ IsPrefix(tasks[t].calls, <<"simple", "playwright", "html-validator">>)
                /\ tasks[t].pc \in AfterSuccess =>
                      /\ tasks[t].calls # <<>>
                      /\ Len(tasks[t].reasons) = Len(tasks[t].calls) - 1
                      /\ tasks[t].analysisMethod = tasks[t].calls[Len(tasks[t].calls)]
                /\ tasks[t].pc \in {"simple", "playwright", "html"} =>
                      /\ Len(tasks[t].reasons) = Len(tasks[t].calls)
                      /\ IsPrefix(tasks[t].calls \o <<StrategyAt(tasks[t].pc)>>,
                                  <<"simple", "playwright", "html-validator">>))
    /\ [][\A t \in TaskIds :
            /\ (tasks[t].pc \notin {"simple", "playwright", "html", "done"}
                    /\ tasks'[t].pc # "done")
                  => tasks'[t].calls = tasks[t].calls
            /\ (tasks[t].pc = "complete" /\ tasks'[t].pc = "done")
                  => /\ scans'[tasks[t].scanId].status = "completed"
                     /\ scans'[tasks[t].scanId].analysisMethod
                           = tasks[t].calls[Len(tasks[t].calls)]]_vars

\* a Scan was completed by the third strategy after the first two had failed
C10_Witness ==
    \E id \in ScanIds :
        scans[id].status = "completed" /\ scans[id].analysisMethod = "html-validator"


Strategies == {"simple", "playwright", "html"}

Succeeds(t) == tasks[t].pc = "complete" /\ tasks'[t].pc = "done"

\* C12: when an attempt succeeds, its Scan is completed, with completedAt the
\* time of the update, the five counters of the summary the winning strategy
\* returned, analysisMethod the winning strategy, and no error.
C12_CompletedWithSummary ==
    [][\A t \in TaskIds :
          Succeeds(t) =>
              LET scan == scans'[tasks[t].scanId]
                  summary == Summarize(tasks[t].results)
              IN  /\ scan.status = "completed"
                  /\ scan.completedAt = now
                  /\ scan.criticalIssues = summary.critical
                  /\ scan.seriousIssues = summary.serious
                  /\ scan.moderateIssues = summary.moderate
                  /\ scan.minorIssues = summary.minor
                  /\ scan.totalIssues = summary.total
                  /\ scan.analysisMethod = tasks[t].calls[Len(tasks[t].calls)]
                  /\ scan.error = NULL]_vars

\* a rescan has completed its Scan with the two issues found by the playwright
\* checker
C12_Witness ==
    \E id \in ScanIds :
        /\ scans[id].status = "completed"
        /\ scans[id].createdAt < scans[id].startedAt
        /\ scans[id].totalIssues = 2 /\ scans[id].criticalIssues = 1
        /\ scans[id].moderateIssues = 1
        /\ scans[id].analysisMethod = "playwright"
        /\ scans[id].error = NULL


\* the message of the exception that took a task to its catch block
ThrownMessage(task) ==
    IF Len(task.reasons) = 3
    THEN "All analysis methods failed: Simple: " \o task.reasons[1]
            \o ", Playwright: " \o task.reasons[2] \o ", HTML: " \o task.reasons[3]
    ELSE DbError

\* C13: when a task ends after an exception in the analysis or in a database
\* operation, its Scan is failed, with completedAt set, error the message of
\* that exception, and the five counters NULL.
C13_FailedWithMessage ==
    [][\A t \in TaskIds :
          (tasks[t].pc = "rethrown" /\ tasks'[t].pc = "done") =>
              LET scan == scans'[tasks[t].scanId]
              IN  /\ scan.status = "failed"
                  /\ scan.completedAt # NullInt
                  /\ scan.error = ThrownMessage(tasks[t])
                  /\ scan.totalIssues = NullInt
                  /\ scan.criticalIssues = NullInt
                  /\ scan.seriousIssues = NullInt
                  /\ scan.moderateIssues = NullInt
                  /\ scan.minorIssues = NullInt]_vars


\* the status changes of the lifecycle; the last two are the reset of a rescan
LifecycleSteps ==
    {<<"pending", "in_progress">>, <<"in_progress", "completed">>,
     <<"in_progress", "failed">>, <<"completed", "in_progress">>,
     <<"failed", "in_progress">>}

\* C14: the status of a Scan changes only from pending to in_progress, from
\* in_progress to completed or failed, and from completed or failed back to
\* in_progress, the latter only in the step of a rescan request for that Scan.
C14_StatusLifecycle ==
    [][\A id \in ScanIds :
          scans'[id].status # scans[id].status =>
              /\ <<scans[id].status, scans'[id].status>> \in LifecycleSteps
              /\ scans[id].status \in Terminal =>
                    /\ RescanDispatched
                    /\ tasks'[Len(tasks')].scanId = id]_vars


\* the task is a rescan in the catch path after its analysis succeeded: a
\* database operation of the reconciliation threw (the final update of the
\* Scan, had it thrown, would have taken the same path)
RescanFailedAfterAnalysis(task) ==
    /\ task.isRescan
    /\ task.pc \in {"catch", "rethrown"}
    /\ task.calls # <<>>
    /\ Len(task.reasons) < Len(task.calls)

\* C15: a database failure during the reconciliation of a rescan leaves every
\* Result as it was before the reconciliation, in the failing step and in the
\* steps of the task after it, and when the task ends the Scan is failed with
\* the error recorded.
C15_ReconciliationFailureRollsBack ==
    [][\A t \in TaskIds :
          /\ (tasks[t].pc \in {"findMany", "transaction"} /\ tasks'[t].pc = "catch")
                => results' = results
          /\ (RescanFailedAfterAnalysis(tasks[t]) /\ tasks'[t] # tasks[t])
                => /\ results' = results
                   /\ tasks'[t].pc = "done" =>
                         /\ scans'[tasks[t].scanId].status = "failed"
                         /\ scans'[tasks[t].scanId].error = DbError]_vars


\* the step is a setTimeout callback of the rescan endpoint whose request
\* started an analysis
TimerStartedTask ==
    /\ Len(timers') = Len(timers) - 1
    /\ Len(tasks') = Len(tasks) + 1

\* C16: the analysis triggered by an accepted rescan request runs on the Scan
\* the request found or created for the Url: a Scan of that project and url
\* that exists when the callback runs; the callback creates no further Scan.
C16_RescanRunsOnItsScan ==
    [][TimerStartedTask =>
          LET id == tasks'[Len(tasks')].scanId
          IN  /\ Len(scans') = Len(scans)
              /\ id \in ScanIds
              /\ \E i \in DOMAIN timers :
                    /\ scans[id].projectId = timers[i].projectId
                    /\ scans[id].url = timers[i].url]_vars


\* C17: the findings returned for a project come from its completed Scans
\* only, no two of them have the same identity tuple, and every identity tuple
\* found in those Scans is returned once, by a Result with the greatest
\* createdAt among the Results with that tuple.
C17_ResultsDeduplicatedByTuple ==
    \A projectId \in ProjectIds :
        \A returned \in uniqueResultsOf(projectId) :
            /\ \A r \in returned :
                  /\ scans[r.scanId].projectId = projectId
                  /\ scans[r.scanId].status = "completed"
            /\ \A r1, r2 \in returned : IdentityTuple(r1) = IdentityTuple(r2) => r1 = r2
            /\ \A stored \in allResults(projectId) :
                  \E r \in returned :
                      /\ IdentityTuple(r) = IdentityTuple(stored)
                      /\ \A other \in allResults(projectId) :
                            IdentityTuple(other) = IdentityTuple(r)
                                => other.createdAt <= r.createdAt


\* C18: a rescan request for a project id that matches no Project, and a POST
\* /scans request with a scanId that matches no Scan, are answered with 404 and
\* create or change no Scan.
C18_MissingProjectOrScanIs404 ==
    [][/\ (RescanStep /\ response'.project = UnknownProject)
            => (response'.status = 404 /\ NothingStarted)
       /\ \A projectId \in ProjectIds, url \in RequestUrls \ {""} :
             \A scanId \in (1..(Len(scans) + 1)) \ ScanIds :
                 (PostScansHandler(projectId, url, scanId) /\ timers' = timers)
                     => (response'.status = 404 /\ scans' = scans)]_vars


TuplesOfList(rs) == {IdentityTuple(rs[i]) : i \in 1..Len(rs)}

\* C19: when the reconciliation of a rescan commits, a stored Result whose
\* identity tuple is in the new list is still stored with its id and its
\* createdAt and carries the non-identity fields of a new Result with that
\* tuple; a stored Result whose tuple is not in the new list is removed; and
\* for every tuple of the new list that no stored Result had, exactly one new
\* Result is stored.
C19_UpdateInPlaceOrRemoveAndAdd ==
    [][\A t \in TaskIds :
          (tasks[t].pc = "transaction" /\ tasks'[t].pc = "complete") =>
              LET before == ResultsOfScan(results, tasks[t].scanId)
                  after == ResultsOfScan(results', tasks[t].scanId)
                  R2 == tasks[t].results
              IN  /\ \A r \in before :
                        IF IdentityTuple(r) \in TuplesOfList(R2)
                        THEN \E a \in after, i \in 1..Len(R2) :
                                /\ a.id = r.id
                                /\ a.createdAt = r.createdAt
                                /\ IdentityTuple(a) = IdentityTuple(r)
                                /\ IdentityTuple(R2[i]) = IdentityTuple(r)
                                /\ \A field \in fieldsToCheck :
                                      a[field] = PersistedValue(field, R2[i][field])
                        ELSE r.id \notin RowIds(after)
                  /\ \A tuple \in TuplesOfList(R2) \ {IdentityTuple(r) : r \in before} :
                        Cardinality({a \in after : IdentityTuple(a) = tuple
                                                     /\ a.id \notin RowIds(before)}) = 1]_vars


\* the fields of fieldsToCheck whose stored value is not the value the new
\* Result is persisted with (an absent optional field is stored as NULL)
DifferingFields(row, new) ==
    {field \in fieldsToCheck : row[field] # PersistedValue(field, new[field])}

\* C20: in the diff of a rescan, the patch of a stored Result whose key is in
\* the new list holds exactly the fields of help, impact, tags (as a sequence),
\* elementPath, details that differ between the stored and the new Result,
\* and its updatedAt; a stored Result without a differing field, in
\* particular one whose optional fields are absent on both sides, has no patch.
C20_PatchHoldsExactlyDifferingFields ==
    \A t \in TaskIds :
        tasks[t].pc = "transaction" =>
            LET rows == ResultsOfScan(results, tasks[t].scanId)
                newMap == newMapOf(tasks[t].results)
            IN  \A r \in rows :
                    createKey(r) \in DOMAIN newMap =>
                        LET differing == DifferingFields(r, newMap[createKey(r)])
                        IN  /\ \A u \in tasks[t].toUpdate :
                                  u.id = r.id => /\ DOMAIN u.updates = differing
                                                 /\ differing # {}
                            /\ (differing # {}
                                   /\ \A other \in rows : createKey(other) = createKey(r)
                                                               => other = r)
                                  => \E u \in tasks[t].toUpdate : u.id = r.id


\* C21: the bulk insert of a fresh scan writes onto a Scan without Results and
\* stores one row per Result returned, and when the fresh scan completes its
\* Scan holds as many Results as the winning strategy returned.
C21_FreshScanStoresAllResults ==
    [][\A t \in TaskIds :
          ~tasks[t].isRescan =>
              /\ (tasks[t].pc = "createMany" /\ tasks'[t].pc = "complete")
                    => /\ ResultsOfScan(results, tasks[t].scanId) = {}
                       /\ Cardinality(ResultsOfScan(results', tasks[t].scanId))
                              = Len(tasks[t].results)
              /\ Succeeds(t)
                    => Cardinality(ResultsOfScan(results', tasks[t].scanId))
                          = Len(tasks[t].results)]_vars


\* C22: no two Results stored for the same Scan have the same identity tuple.
C22_TupleUniqueWithinScan ==
    \A r1, r2 \in results :
        (r1.scanId = r2.scanId /\ IdentityTuple(r1) = IdentityTuple(r2)) => r1 = r2


\* C23: when the reconciliation of a rescan commits, the identity tuples of
\* the Results stored for the Scan are those of the new list.
C23_StoredKeysEqualNewKeys ==
    [][\A t \in TaskIds :
          (tasks[t].pc = "transaction" /\ tasks'[t].pc = "complete")
              => {IdentityTuple(r) : r \in ResultsOfScan(results', tasks[t].scanId)}
                    = TuplesOfList(tasks[t].results)]_vars


\* C24: a completed Scan's totalIssues is the number of Results stored for it.
C24_TotalIssuesCountsResults ==
    \A id \in ScanIds :
        scans[id].status = "completed"
            => scans[id].totalIssues = Cardinality(ResultsOfScan(results, id))


\* C25: when a task completes its Scan and with it every task and every
\* callback has finished, no Scan of that project is pending or in_progress.
C25_NoScanLeftUnfinished ==
    [][\A t \in TaskIds :
          (Succeeds(t) /\ timers = <<>> /\ \A other \in TaskIds : tasks'[other].pc = "done")
              => \A id \in ScanIds :
                    scans'[id].projectId = scans[tasks[t].scanId].projectId
                        => scans'[id].status \in Terminal]_vars


\* C26: a POST /scans request with the scanId of a Scan that belongs to another
\* project than the projectId of the request changes no Scan and no Result and
\* starts no analysis.
C26_RescanOnlyWithinProject ==
    [][\A projectId \in RequestProjectIds \ {""}, url \in RequestUrls \ {""} :
          \A scanId \in ScanIds :
              (scans[scanId].projectId # projectId
                  /\ PostScansHandler(projectId, url, scanId) /\ timers' = timers)
                  => (scans' = scans /\ results' = results /\ tasks' = tasks)]_vars


\* C27: among the Results an analyser returned to a task and among the stored
\* Results, two have the same key (of createKey, and of the deduplication map
\* of the results endpoint) exactly when they have the same identity tuple.
C27_KeyInjectiveOnTuples ==
    /\ \A t \in TaskIds :
          \A i, j \in 1..Len(tasks[t].results) :
              (createKey(tasks[t].results[i]) = createKey(tasks[t].results[j]))
                  = (IdentityTuple(tasks[t].results[i]) = IdentityTuple(tasks[t].results[j]))
    /\ \A r1, r2 \in results :
          /\ (createKey(r1) = createKey(r2)) = (IdentityTuple(r1) = IdentityTuple(r2))
          /\ (deduplicationKey(r1) = deduplicationKey(r2))
                = (IdentityTuple(r1) = IdentityTuple(r2))


\* C28: a step of the processScan task of Scan S leaves the Results of every
\* other Scan and every other Scan row as they are.
C28_OnlyOwnScanTouched ==
    [][\A t \in TaskIds :
          tasks'[t] # tasks[t] =>
              /\ {r \in results : r.scanId # tasks[t].scanId}
                    = {r \in results' : r.scanId # tasks[t].scanId}
              /\ \A id \in ScanIds \ {tasks[t].scanId} : scans'[id] = scans[id]]_vars

\* a rescan has changed the Results of its Scan and completed while another
\* Scan holds Results
C28_Witness ==
    \E id, other \in ScanIds :
        /\ id # other
        /\ scans[id].status = "completed"
        /\ scans[id].createdAt < scans[id].startedAt
        /\ \E r \in results : r.scanId = id /\ r.createdAt < r.updatedAt
        /\ \E r \in results : r.scanId = other


\* C29: when the first rescan of the Scan has failed (its rejection has been
\* handled by the .catch of the dispatch), the findings GET results returned
\* for the project before the rescan, the rows of the fresh scan, are still
\* among the Results the endpoint reads.
C29_FailedRescanKeepsFindings ==
    [][(Len(tasks) = 2 /\ tasks[2].pc = "rethrown" /\ tasks'[2].pc = "done")
          => {r.id : r \in FirstScanRows} \subseteq {r.id : r \in allResults("p1")'}]_vars

\* the state the rescans start from, in which the endpoint returns the rows of
\* the fresh scan; the sequential scans reach it
C29_ReturnedBefore == InitScanned /\ uniqueResultsOf("p1") = {FirstScanRows}

\* the first rescan has failed: the rows of the fresh scan are all stored, and
\* the endpoint reads none of them
C29_Witness ==
    /\ Len(tasks) = 2
    /\ tasks[2].pc = "done"
    /\ scans[1].status = "failed"
    /\ FirstScanRows \subseteq results
    /\ allResults("p1") = {}


\* C30: a PATCH of a project that is answered with status 400 or 500 leaves
\* the name and the Urls of every project as they were before the request.
C30_FailedPatchChangesNothing ==
    [][(response'.endpoint = "PATCH /projects" /\ response'.status \in {400, 500})
          => projects' = projects]_vars

\* a PATCH answered with 500 has left its project without Urls
C30_Witness ==
    /\ response.endpoint = "PATCH /projects"
    /\ response.status = 500
    /\ response.project \in DOMAIN projects
    /\ projects[response.project].urls = {}
    /\ \E p \in DOMAIN projects : projects[p].urls # {}

====
